---- MODULE Spec2Model ----
(***************************************************************************)
(* Model of src/src/virtual_dns.rs: the fake-IP DNS resolver VirtualDns.   *)
(*                                                                         *)
(* An address is the tuple of its octets (4 for IPv4, 16 for IPv6), most   *)
(* significant first.  A domain name is the tuple of its characters; a     *)
(* label is abstracted to one character, the dot is kept as ".".           *)
(* lru_cache is the hashlink LruCache as the sequence of its entries from  *)
(* least recently used (front) to most recently used (back); capacity is   *)
(* its max_size.  name_to_ip is the HashMap as a function on its keys.     *)
(*                                                                         *)
(* hashlink is a dependency whose release the build chooses.  Its          *)
(* raw_entry_mut drops the front entry of a table that is longer than its  *)
(* capacity before it hands out the raw entry; LruCache::get does the same *)
(* where get_mut takes its entry from LruCache::raw_entry_mut, and does    *)
(* not where it takes it from the underlying map.  get_makes_room is that  *)
(* choice, made once for the build.                                        *)
(***************************************************************************)
EXTENDS Integers, Sequences, FiniteSets, TLC

VARIABLES trailing_dot, lru_cache, name_to_ip, network_addr, broadcast_addr,
          next_addr, capacity, get_makes_room, last, issued

vars == <<trailing_dot, lru_cache, name_to_ip, network_addr, broadcast_addr,
          next_addr, capacity, get_makes_room, last, issued>>

(***************************************************************************)
(* Bounds of the model and constants of the program.                       *)
(***************************************************************************)
\* number of distinct labels the queries are drawn from
NumLabels == 4

\* the first label is also queried with 1..MaxDots trailing dots
MaxDots == 2

\* the largest capacity of the pools checked with trailing_dot set (the
\* smallest is 1)
DotCapacity == 2

\* the largest octet value (the carry test of increment_ip)
ByteMax == 255

\* octets of a usize on the 64-bit targets the program is built for
UsizeBytes == 8

\* octets of an IPv4 address
V4Len == 4

\* octets of an IPv6 address
V6Len == 16

Labels == <<"a", "b", "c", "d", "e", "f", "g", "h">>

RECURSIVE Dotted(_, _)
Dotted(name, k) == IF k = 0 THEN name ELSE Dotted(Append(name, "."), k - 1)

\* the names a query can carry
Names ==
    { <<Labels[i]>> : i \in 1..NumLabels }
    \cup { Dotted(<<Labels[1]>>, k) : k \in 1..MaxDots }

(***************************************************************************)
(* Address arithmetic.                                                     *)
(***************************************************************************)
Rep(n, x) == [i \in 1..n |-> x]

\* IpAddr's Ord within one family: lexicographic on the octets
RECURSIVE AddrLtFrom(_, _, _)
AddrLtFrom(a, b, i) ==
    IF i > Len(a) THEN FALSE
    ELSE IF a[i] # b[i] THEN a[i] < b[i]
    ELSE AddrLtFrom(a, b, i + 1)

AddrLt(a, b) == AddrLtFrom(a, b, 1)

\* the loop of increment_ip: j counts the octets visited from the right
RECURSIVE IncrementFrom(_, _)
IncrementFrom(ip_bytes, j) ==
    IF j >= Len(ip_bytes) THEN ip_bytes
    ELSE LET i == Len(ip_bytes) - j
         IN  IF ip_bytes[i] # ByteMax
             THEN [ip_bytes EXCEPT ![i] = ip_bytes[i] + 1]
             ELSE IncrementFrom([ip_bytes EXCEPT ![i] = 0], j + 1)

\* the loop without its carry: only the last octet is stepped
IncrementNoCarry(addr) ==
    [addr EXCEPT ![Len(addr)] = (addr[Len(addr)] + 1) % (ByteMax + 1)]

\* increment_ip, lines 63-88: the octets after the loop
increment_ip(addr) == IncrementFrom(addr, 0)

\* lines 80-86: the conversion back to an address succeeds when the octets
\* are as many as the address family has
IncrementOk(addr) ==
    Len(increment_ip(addr)) = (IF Len(addr) = V4Len THEN V4Len ELSE V6Len)

\* the range test with its lower half left out
WrapAboveOnly(addr) ==
    IF AddrLt(broadcast_addr, addr) THEN network_addr ELSE addr

\* the range test that follows every increment_ip in find_or_allocate_ip
Wrap(addr) ==
    IF AddrLt(broadcast_addr, addr) \/ AddrLt(addr, network_addr)
    THEN network_addr ELSE addr

(***************************************************************************)
(* Capacity, as VirtualDns::new computes it: (b - n + 1) in the integer of *)
(* the address family (u32 / u128), then cast to usize.                    *)
(***************************************************************************)
\* borrow taken from octet i by the octets to its right in b - n
RECURSIVE Borrow(_, _, _)
Borrow(b, n, i) ==
    IF i = Len(b) THEN 0
    ELSE IF b[i + 1] - Borrow(b, n, i + 1) < n[i + 1] THEN 1 ELSE 0

\* b - n in the family's unsigned integer
SubBytes(b, n) ==
    [i \in 1..Len(b) |-> (b[i] - n[i] - Borrow(b, n, i)) % (ByteMax + 1)]

\* x + 1 in the family's unsigned integer, wrapping at its width
AddOneBytes(x) == IncrementFrom(x, 0)

\* `as usize`: the low UsizeBytes octets (zero-extended when there are fewer)
AsUsize(x) ==
    IF Len(x) <= UsizeBytes THEN x
    ELSE SubSeq(x, Len(x) - UsizeBytes + 1, Len(x))

RECURSIVE ToNat(_)
ToNat(x) ==
    IF Len(x) = 0 THEN 0
    ELSE ToNat(SubSeq(x, 1, Len(x) - 1)) * (ByteMax + 1) + x[Len(x)]

Capacity(n, b) == ToNat(AsUsize(AddOneBytes(SubBytes(b, n))))

(***************************************************************************)
(* hashlink::LruCache, as far as VirtualDns uses it.  An entry is          *)
(* [key |-> address, name |-> NameCacheEntry.name].                        *)
(***************************************************************************)
NoAddr == <<>>

NoEntry == [key |-> NoAddr, name |-> <<>>]

Keys(lru) == { lru[i].key : i \in 1..Len(lru) }

IndexOf(lru, k) == CHOOSE i \in 1..Len(lru) : lru[i].key = k

Without(lru, k) == SelectSeq(lru, LAMBDA e : e.key # k)

\* LruCache::raw_entry_mut: makes room for one entry before handing out the
\* raw entry: the front is dropped when the length exceeds the capacity
RawEntryMut(lru) == IF Len(lru) > capacity THEN Tail(lru) ELSE lru

\* the table LruCache::get looks the key up in
GetTable(lru) == IF get_makes_room THEN RawEntryMut(lru) ELSE lru

\* LruCache::get mistaken for a peek: the entry is returned where it is
LruGetNoPromote(lru, k) ==
    IF k \in Keys(GetTable(lru))
    THEN [found |-> TRUE, entry |-> lru[IndexOf(lru, k)], lru |-> GetTable(lru)]
    ELSE [found |-> FALSE, entry |-> NoEntry, lru |-> GetTable(lru)]

\* LruCache::get: an occupied entry is moved to the back and returned
LruGet(lru, k) ==
    IF k \in Keys(GetTable(lru))
    THEN [found |-> TRUE, entry |-> lru[IndexOf(lru, k)],
          lru |-> Append(Without(GetTable(lru), k), lru[IndexOf(lru, k)])]
    ELSE [found |-> FALSE, entry |-> NoEntry, lru |-> GetTable(lru)]

\* remove_lru that never finds an entry to give up
RemoveLruNothing(lru) == [found |-> FALSE, entry |-> NoEntry, lru |-> lru]

\* LruCache::remove_lru: pops the front of the list
RemoveLru(lru) ==
    IF Len(lru) > 0
    THEN [found |-> TRUE, entry |-> Head(lru), lru |-> Tail(lru)]
    ELSE [found |-> FALSE, entry |-> NoEntry, lru |-> lru]

\* LruCache::insert: the entry goes to the back (replacing one of the same
\* key), then the front is dropped when the length exceeds the capacity
LruInsert(lru, k, name) ==
    LET put == Append(Without(lru, k), [key |-> k, name |-> name])
    IN  IF Len(put) > capacity THEN Tail(put) ELSE put

\* RawVacantEntryMut::insert: appended at the back, no capacity check
VacantInsert(lru, k, name) == Append(lru, [key |-> k, name |-> name])

(***************************************************************************)
(* std HashMap<String, IpAddr>.                                            *)
(***************************************************************************)
MapInsert(m, k, v) == [x \in DOMAIN m \cup {k} |-> IF x = k THEN v ELSE m[x]]

MapRemove(m, k) == [x \in DOMAIN m \ {k} |-> m[x]]

EmptyMap == [x \in {} |-> NoAddr]

(***************************************************************************)
(* find_or_allocate_ip.                                                    *)
(***************************************************************************)
EndsWithDot(name) == Len(name) > 0 /\ name[Len(name)] = "."

\* str::strip_suffix('.') in its place: removes one trailing dot
StripSuffixDot(name) ==
    IF EndsWithDot(name) THEN SubSeq(name, 1, Len(name) - 1) ELSE name

\* str::trim_end_matches('.'): removes every trailing dot
RECURSIVE TrimEndMatchesDot(_)
TrimEndMatchesDot(name) ==
    IF EndsWithDot(name)
    THEN TrimEndMatchesDot(SubSeq(name, 1, Len(name) - 1))
    ELSE name

\* the canonical name with the trailing_dot flag ignored
InsertNameIgnoresFlag(name) ==
    IF EndsWithDot(name) THEN TrimEndMatchesDot(name) ELSE name

\* lines 104-108
InsertName(name) ==
    IF EndsWithDot(name) /\ ~trailing_dot THEN TrimEndMatchesDot(name) ELSE name

\* the result of one call: the fields it leaves behind and what it returns
Outcome(lru, idx, next, ok, ip, path, key, probes) ==
    [lru_cache |-> lru, name_to_ip |-> idx, next_addr |-> next,
     ok |-> ok, ip |-> ip, path |-> path, key |-> key, probes |-> probes]

\* the eviction with the cursor left on the reused address (line 124 without
\* its increment)
EvictCursorOnReused(e, idx, insert_name, path, probes) ==
    LET old_ip == e.entry.key
    IN  Outcome(LruInsert(e.lru, old_ip, insert_name),
                MapInsert(MapRemove(idx, e.entry.name), insert_name, old_ip),
                Wrap(old_ip),
                TRUE, old_ip, path, insert_name, probes)

\* lines 120-128 and 153-161: the evicted entry's address is reused
EvictAndReuse(e, idx, insert_name, path, probes) ==
    LET old_ip == e.entry.key
    IN  Outcome(LruInsert(e.lru, old_ip, insert_name),
                MapInsert(MapRemove(idx, e.entry.name), insert_name, old_ip),
                Wrap(increment_ip(old_ip)),
                TRUE, old_ip, path, insert_name, probes)

\* the probe loop without lines 140-143: the cursor stays on the address
\* just handed out
RECURSIVE ProbeKeepsCursor(_, _, _, _, _, _)
ProbeKeepsCursor(lru, idx, next, started_at, insert_name, probes) ==
    LET raw == RawEntryMut(lru)
    IN  IF next \notin Keys(raw)
        THEN Outcome(VacantInsert(raw, next, insert_name),
                     MapInsert(idx, insert_name, next),
                     next,
                     TRUE, next, "probe", insert_name, probes + 1)
        ELSE LET advanced == Wrap(increment_ip(next))
             IN  IF advanced = started_at
                 THEN IF RemoveLru(raw).found
                      THEN EvictAndReuse(RemoveLru(raw), idx, insert_name,
                                         "loop_evict", probes + 1)
                      ELSE Outcome(raw, idx, advanced, FALSE, NoAddr,
                                   "exhausted", insert_name, probes + 1)
                 ELSE ProbeKeepsCursor(raw, idx, advanced, started_at,
                                       insert_name, probes + 1)

\* lines 134-166: the probe loop; probes counts the candidates examined
RECURSIVE ProbeLoop(_, _, _, _, _, _)
ProbeLoop(lru, idx, next, started_at, insert_name, probes) ==
    LET raw == RawEntryMut(lru)
    IN  IF next \notin Keys(raw)
        THEN Outcome(VacantInsert(raw, next, insert_name),
                     MapInsert(idx, insert_name, next),
                     Wrap(increment_ip(next)),
                     TRUE, next, "probe", insert_name, probes + 1)
        ELSE LET advanced == Wrap(increment_ip(next))
             IN  IF advanced = started_at
                 THEN IF RemoveLru(raw).found
                      THEN EvictAndReuse(RemoveLru(raw), idx, insert_name,
                                         "loop_evict", probes + 1)
                      ELSE Outcome(raw, idx, advanced, FALSE, NoAddr,
                                   "exhausted", insert_name, probes + 1)
                 ELSE ProbeLoop(raw, idx, advanced, started_at, insert_name,
                                probes + 1)

\* a hit that answers with the cursor instead of the stored address
HitReturnsCursor(lru, idx, next, insert_name) ==
    Outcome(LruGet(lru, idx[insert_name]).lru, idx, next,
            TRUE, next, "hit", insert_name, 0)

\* lines 110-114: the name is in name_to_ip
Hit(lru, idx, next, insert_name) ==
    Outcome(LruGet(lru, idx[insert_name]).lru, idx, next,
            TRUE, idx[insert_name], "hit", insert_name, 0)

\* a full table answered with the error instead of an eviction
MissGivesUpWhenFull(lru, idx, next, insert_name) ==
    IF Len(lru) = capacity /\ RemoveLru(lru).found
    THEN Outcome(lru, idx, next, FALSE, NoAddr, "exhausted", insert_name, 0)
    ELSE ProbeLoop(lru, idx, next, next, insert_name, 0)

\* the capacity test of line 117 left out: any entry at hand is evicted
MissEvictsEarly(lru, idx, next, insert_name) ==
    IF RemoveLru(lru).found
    THEN EvictAndReuse(RemoveLru(lru), idx, insert_name, "evict", 0)
    ELSE ProbeLoop(lru, idx, next, next, insert_name, 0)

\* lines 116-166: the name is not in name_to_ip
Miss(lru, idx, next, insert_name) ==
    IF Len(lru) = capacity /\ RemoveLru(lru).found
    THEN EvictAndReuse(RemoveLru(lru), idx, insert_name, "evict", 0)
    ELSE ProbeLoop(lru, idx, next, next, insert_name, 0)

find_or_allocate_ip(lru, idx, next, name) ==
    IF InsertName(name) \in DOMAIN idx
    THEN Hit(lru, idx, next, InsertName(name))
    ELSE Miss(lru, idx, next, InsertName(name))

(***************************************************************************)
(* The observable result of the last call, and the history of addresses    *)
(* handed out.                                                             *)
(*   last.op, last.addr, last.qname : the call and its argument            *)
(*   last.ok, last.name, last.ip    : what it returned (Ok / Some, and the *)
(*                                    name and address returned)           *)
(*   last.fa_ok, last.fa_ip, last.path, last.key, last.probes :            *)
(*       the find_or_allocate_ip call made by generate_query: its result,  *)
(*       the branch that produced it ("none" when it was not called), the  *)
(*       canonical name it used and the candidates its loop examined       *)
(*   issued : the pairs <<canonical name, address>> find_or_allocate_ip    *)
(*       has returned whose table entry has not been evicted since         *)
(***************************************************************************)
Obs(op, addr, qname, ok, name, ip, fa_ok, fa_ip, path, key, probes) ==
    [op |-> op, addr |-> addr, qname |-> qname, ok |-> ok, name |-> name,
     ip |-> ip, fa_ok |-> fa_ok, fa_ip |-> fa_ip, path |-> path, key |-> key,
     probes |-> probes]

Live(lru) == { <<lru[i].name, lru[i].key>> : i \in 1..Len(lru) }

(***************************************************************************)
(* Inputs.                                                                 *)
(***************************************************************************)
\* the ranges ip_pool.first_address() .. ip_pool.last_address() of
\*   192.168.1.1/32, 10.0.0.0/30, 10.0.255.254/31, 255.255.255.254/31,
\*   fd00::fffe/127 and fd00::/64
Pools ==
    { [n |-> <<192, 168, 1, 1>>,       b |-> <<192, 168, 1, 1>>],
      [n |-> <<10, 0, 0, 0>>,          b |-> <<10, 0, 0, 3>>],
      [n |-> <<10, 0, 255, 254>>,      b |-> <<10, 0, 255, 255>>],
      [n |-> <<255, 255, 255, 254>>,   b |-> <<255, 255, 255, 255>>],
      [n |-> <<253>> \o Rep(V6Len - 3, 0) \o <<255, 254>>,
       b |-> <<253>> \o Rep(V6Len - 3, 0) \o <<255, 255>>],
      [n |-> <<253>> \o Rep(V6Len - 1, 0),
       b |-> <<253>> \o Rep(V6Len - 1 - UsizeBytes, 0) \o Rep(UsizeBytes, ByteMax)] }

\* what the DNS codec makes of a datagram: whether it parses, whether a name
\* can be extracted, the name, and whether the response can be built (the
\* datagrams whose response cannot be built all ask for the first label)
Datagrams ==
    { [parse_ok |-> FALSE, extract_ok |-> FALSE, qname |-> <<>>, build_ok |-> FALSE],
      [parse_ok |-> TRUE,  extract_ok |-> FALSE, qname |-> <<>>, build_ok |-> FALSE] }
    \cup
    { [parse_ok |-> TRUE, extract_ok |-> TRUE, qname |-> n, build_ok |-> TRUE] :
          n \in Names }
    \cup
    { [parse_ok |-> TRUE, extract_ok |-> TRUE, qname |-> Dotted(<<Labels[1]>>, k),
       build_ok |-> FALSE] : k \in 0..MaxDots }

\* the addresses touch_ip and resolve_ip are called with: every address that
\* is or was handed out, the ends of the pool, the cursor, and one address
\* past the pool
AddrInputs ==
    Keys(lru_cache) \cup { name_to_ip[x] : x \in DOMAIN name_to_ip }
    \cup { network_addr, broadcast_addr, next_addr, increment_ip(broadcast_addr) }

(***************************************************************************)
(* VirtualDns::new.                                                        *)
(***************************************************************************)
New(ip_pool, dot, room) ==
    /\ network_addr = ip_pool.n
    /\ broadcast_addr = ip_pool.b
    /\ capacity = Capacity(ip_pool.n, ip_pool.b)
    /\ trailing_dot = dot
    /\ get_makes_room = room
    /\ next_addr = ip_pool.n
    /\ name_to_ip = EmptyMap
    /\ lru_cache = <<>>
    /\ last = Obs("new", NoAddr, <<>>, TRUE, <<>>, NoAddr, FALSE, NoAddr, "none", <<>>, 0)
    /\ issued = {}

\* the choice of get shows only in a table longer than its capacity, which a
\* capacity of at least 1 never lets happen: one value stands for both there
RoomChoices(ip_pool) ==
    IF Capacity(ip_pool.n, ip_pool.b) = 0 THEN BOOLEAN ELSE {FALSE}

Init == \E ip_pool \in Pools : \E room \in RoomChoices(ip_pool) :
            New(ip_pool, FALSE, room)

(***************************************************************************)
(* The public operations.                                                  *)
(***************************************************************************)
Frame ==
    UNCHANGED <<trailing_dot, network_addr, broadcast_addr, capacity, get_makes_room>>

\* generate_query with the allocation made before the codec's results are
\* looked at
GenerateQueryAllocatesFirst(data) ==
    /\ Frame
    /\ LET r == find_or_allocate_ip(lru_cache, name_to_ip, next_addr, data.qname)
           answered == data.parse_ok /\ data.extract_ok /\ r.ok /\ data.build_ok
       IN  /\ lru_cache' = r.lru_cache
           /\ name_to_ip' = r.name_to_ip
           /\ next_addr' = r.next_addr
           /\ issued' = (IF r.ok THEN issued \cup {<<r.key, r.ip>>} ELSE issued)
                            \cap Live(r.lru_cache)
           /\ last' = Obs("generate_query", NoAddr, data.qname, answered,
                          IF answered THEN data.qname ELSE <<>>,
                          IF answered THEN r.ip ELSE NoAddr,
                          r.ok, r.ip, r.path, r.key, r.probes)

\* generate_query, lines 54-61
GenerateQuery(data) ==
    /\ Frame
    /\ IF ~data.parse_ok \/ ~data.extract_ok
       THEN /\ UNCHANGED <<lru_cache, name_to_ip, next_addr, issued>>
            /\ last' = Obs("generate_query", NoAddr, data.qname, FALSE, <<>>,
                           NoAddr, FALSE, NoAddr, "none", <<>>, 0)
       ELSE LET r == find_or_allocate_ip(lru_cache, name_to_ip, next_addr, data.qname)
                answered == r.ok /\ data.build_ok
            IN  /\ lru_cache' = r.lru_cache
                /\ name_to_ip' = r.name_to_ip
                /\ next_addr' = r.next_addr
                /\ issued' = (IF r.ok THEN issued \cup {<<r.key, r.ip>>} ELSE issued)
                                 \cap Live(r.lru_cache)
                /\ last' = Obs("generate_query", NoAddr, data.qname, answered,
                               IF answered THEN data.qname ELSE <<>>,
                               IF answered THEN r.ip ELSE NoAddr,
                               r.ok, r.ip, r.path, r.key, r.probes)

\* touch_ip, lines 93-95
TouchIp(addr) ==
    /\ Frame
    /\ lru_cache' = LruGet(lru_cache, addr).lru
    /\ UNCHANGED <<name_to_ip, next_addr, issued>>
    /\ last' = Obs("touch_ip", addr, <<>>, TRUE, <<>>, NoAddr, FALSE, NoAddr,
                   "none", <<>>, 0)

\* resolve_ip, lines 97-99
ResolveIp(addr) ==
    /\ Frame
    /\ lru_cache' = LruGet(lru_cache, addr).lru
    /\ UNCHANGED <<name_to_ip, next_addr, issued>>
    /\ last' = Obs("resolve_ip", addr, <<>>, LruGet(lru_cache, addr).found,
                   LruGet(lru_cache, addr).entry.name, NoAddr, FALSE, NoAddr,
                   "none", <<>>, 0)

Next ==
    \/ \E data \in Datagrams : GenerateQuery(data)
    \/ \E addr \in AddrInputs : TouchIp(addr)
    \/ \E addr \in AddrInputs : ResolveIp(addr)

Spec == Init /\ [][Next]_vars

(***************************************************************************)
(* Properties.                                                             *)
(***************************************************************************)
IndexPairs == { <<x, name_to_ip[x]>> : x \in DOMAIN name_to_ip }

\* the step just taken called find_or_allocate_ip
FindCalled(obs) == obs.path # "none"

\* the table entries a step removed
Removed == Live(lru_cache) \ Live(lru_cache')

\* C1: the table and the reverse index hold the same pairs, every address
\* and every name occurring once.
C1_Bijection ==
    /\ Live(lru_cache) = IndexPairs
    /\ Cardinality(Keys(lru_cache)) = Len(lru_cache)
    /\ Cardinality({ p[1] : p \in Live(lru_cache) }) = Len(lru_cache)

\* C1 on the resolvers whose capacity is at least 1
C1_BijectionPosCap == capacity >= 1 => C1_Bijection

\* C2: a find_or_allocate call for a name whose address was handed out
\* earlier and has not been evicted since returns that address again.
C2_Idempotent ==
    [][ FindCalled(last') =>
          \A p \in issued : p[1] = last'.key =>
              last'.fa_ok /\ last'.fa_ip = p[2] ]_vars

\* C2: a name was given its address again after other calls came in between
C2_Witness ==
    /\ last.path = "hit"
    /\ <<last.key, last.fa_ip>> \in issued
    /\ Len(lru_cache) >= 2
    /\ \E x \in DOMAIN name_to_ip : AddrLt(last.fa_ip, name_to_ip[x])

\* C3: the number of live table entries never exceeds the capacity.
C3_CapacityBound == Len(lru_cache) <= capacity

\* C3 on the resolvers whose capacity is at least 1
C3_CapacityBoundPosCap == capacity >= 1 => C3_CapacityBound

\* the step just taken allocated an address to a name that had none
Allocates == FindCalled(last') /\ last'.key \notin DOMAIN name_to_ip

\* the pair at the front of the table: the least recently used one
LruPair == <<Head(lru_cache).name, Head(lru_cache).key>>

\* the step evicted the least recently used pair and gave its address to
\* the new name, leaving every other pair alone
EvictsLru ==
    /\ last'.fa_ok
    /\ Len(lru_cache) > 0
    /\ Removed = {LruPair}
    /\ LruPair[1] \notin DOMAIN name_to_ip'
    /\ last'.fa_ip = LruPair[2]
    /\ LruGet(lru_cache', last'.fa_ip).found
    /\ LruGet(lru_cache', last'.fa_ip).entry.name = last'.key
    /\ Live(lru_cache') = (Live(lru_cache) \ {LruPair}) \cup {<<last'.key, last'.fa_ip>>}
    /\ IndexPairs' = (IndexPairs \ {LruPair}) \cup {<<last'.key, last'.fa_ip>>}

\* C4: an allocation for a new name at capacity evicts exactly the least
\* recently used pair, removes its name from the reverse index, binds the new
\* name to its address and returns it; resolve then gives the new name; all
\* other pairs are unchanged.
C4_EvictionAtCapacity ==
    [][ (Allocates /\ Len(lru_cache) = capacity) => EvictsLru ]_vars

\* C4 on the resolvers whose capacity is at least 1
C4_EvictionAtCapacityPosCap ==
    [][ (Allocates /\ Len(lru_cache) = capacity /\ capacity >= 1) => EvictsLru ]_vars

\* the last call was touch_ip or resolve_ip
Touched(obs) == obs.op \in {"touch_ip", "resolve_ip"}

\* touch_ip / resolve_ip of a live address moves its entry to the back
MovesToMru ==
    (Touched(last') /\ last'.addr \in Keys(lru_cache)) =>
        lru_cache'[Len(lru_cache')].key = last'.addr

\* an allocation of a new name that directly follows the touch of a live
\* address does not evict that address
SparesTouched ==
    (Touched(last) /\ last.addr \in Keys(lru_cache) /\ Allocates) =>
        \A p \in Removed : p[2] # last.addr

\* C5 as claimed, on every resolver whose capacity is at least 1 (the
\* single-address pool included): touch and resolve move a live entry to
\* most-recently-used, and the entry touched last is not the one the next
\* allocation of a new name evicts.
C5_RecencyAnyCapacity ==
    [][ capacity >= 1 => (MovesToMru /\ SparesTouched) ]_vars

\* C5 amended: on a resolver whose capacity is at least 1 touch and resolve
\* move a live entry to most-recently-used, and on one whose capacity is at
\* least 2 the entry touched last is not the one the next allocation of a new
\* name evicts.
C5_Recency ==
    [][ /\ capacity >= 1 => MovesToMru
        /\ capacity >= 2 => SparesTouched ]_vars

\* C5: in a full table of at least two entries the first address of the pool
\* was touched and is now most recently used, and a name that has no address
\* yet can be asked for next
C5_Witness ==
    /\ Touched(last)
    /\ capacity >= 2
    /\ Len(lru_cache) = capacity
    /\ last.addr = network_addr
    /\ lru_cache[Len(lru_cache)].key = last.addr
    /\ \E n \in Names : InsertName(n) \notin DOMAIN name_to_ip

(***************************************************************************)
(* The resolver with the trailing_dot flag as a parameter of construction: *)
(* new() sets the field to FALSE; line 104 reads it.                       *)
(***************************************************************************)
InitCfg ==
    \/ Init
    \/ \E ip_pool \in Pools :
          /\ Capacity(ip_pool.n, ip_pool.b) \in 1..DotCapacity
          /\ New(ip_pool, TRUE, FALSE)

SpecCfg == InitCfg /\ [][Next]_vars

\* q1 and q2 are a name without a trailing dot and the same name with one
PlainAndDotted(q1, q2) ==
    \E n \in Names :
        /\ ~EndsWithDot(n)
        /\ \/ (q1 = n /\ q2 = Append(n, "."))
           \/ (q2 = n /\ q1 = Append(n, "."))

\* C6: two successive find_or_allocate calls for n and n + "." (in either
\* order) return the same address of one shared entry when trailing_dot is
\* false (the second call adds no mapping); when it is true each name is the
\* key of its own entry, the two never share an address while both are
\* mapped, and both entries are live together once the capacity allows two
\* entries.
C6_Canonicalization ==
    [][ (FindCalled(last) /\ last.fa_ok /\ FindCalled(last')
            /\ PlainAndDotted(last.qname, last'.qname)) =>
          IF ~trailing_dot
          THEN /\ last'.fa_ok
               /\ last'.fa_ip = last.fa_ip
               /\ last'.key = last.key
               /\ IndexPairs' = IndexPairs
               /\ capacity >= 1 => Live(lru_cache') = Live(lru_cache)
          ELSE /\ last'.fa_ok
               /\ last.key = last.qname
               /\ last'.key = last'.qname
               /\ name_to_ip'[last'.qname] = last'.fa_ip
               /\ last.qname \in DOMAIN name_to_ip' =>
                     name_to_ip'[last.qname] # last'.fa_ip
               /\ capacity >= 2 =>
                     /\ last'.fa_ip # last.fa_ip
                     /\ <<last.qname, last.fa_ip>> \in Live(lru_cache')
                     /\ <<last'.qname, last'.fa_ip>> \in Live(lru_cache') ]_vars

\* C6: with trailing_dot false a query for a name with a trailing dot was
\* answered from the entry keyed by the name without it
C6_Witness ==
    /\ ~trailing_dot
    /\ last.path = "hit"
    /\ last.qname = Append(last.key, ".")
    /\ <<last.key, last.fa_ip>> \in Live(lru_cache)

\* C6: with trailing_dot true the name and the dotted name hold two entries
C6_WitnessDot ==
    /\ trailing_dot
    /\ \E n \in DOMAIN name_to_ip :
          /\ Append(n, ".") \in DOMAIN name_to_ip
          /\ name_to_ip[n] # name_to_ip[Append(n, ".")]

\* C7: on success generate_query returns the key stored in the table, so
\* that resolve_ip of the returned address gives the returned name (stated
\* on the resolvers whose capacity is at least 1).
C7_ReturnsCanonicalName ==
    (capacity >= 1 /\ last.op = "generate_query" /\ last.ok) =>
        /\ last.name = last.key
        /\ LruGet(lru_cache, last.ip).found
        /\ LruGet(lru_cache, last.ip).entry.name = last.name

\* what the code does instead: the name returned is the queried name, and
\* resolve_ip of the returned address gives its canonical form
C7_ReturnsQueriedName ==
    (capacity >= 1 /\ last.op = "generate_query" /\ last.ok) =>
        /\ last.name = last.qname
        /\ LruGet(lru_cache, last.ip).found
        /\ LruGet(lru_cache, last.ip).entry.name = InsertName(last.qname)

\* C8: right after find_or_allocate returns an address, the table binds that
\* address to the canonical name; resolve_ip returns the name of the pair
\* last handed out for the address and not evicted since, and nothing when
\* there is no such pair.
C8_Resolve ==
    /\ (FindCalled(last) /\ last.fa_ok) =>
          /\ LruGet(lru_cache, last.fa_ip).found
          /\ LruGet(lru_cache, last.fa_ip).entry.name = last.key
    /\ last.op = "resolve_ip" =>
          IF last.ok
          THEN <<last.name, last.addr>> \in issued
          ELSE \A p \in issued : p[2] # last.addr
    /\ \A p, q \in issued : p[2] = q[2] => p = q

\* C8 on the resolvers whose capacity is at least 1
C8_ResolvePosCap == capacity >= 1 => C8_Resolve

\* C9: touch_ip leaves the pairs of the table, the reverse index and the
\* cursor alone; a live address becomes most recently used, the order of the
\* other entries being kept; for an address that is not live nothing changes.
C9_TouchFrame ==
    [][ last'.op = "touch_ip" =>
          /\ Live(lru_cache') = Live(lru_cache)
          /\ Len(lru_cache') = Len(lru_cache)
          /\ name_to_ip' = name_to_ip
          /\ next_addr' = next_addr
          /\ IF last'.addr \in Keys(lru_cache)
             THEN /\ lru_cache'[Len(lru_cache')].key = last'.addr
                  /\ Without(lru_cache', last'.addr) = Without(lru_cache, last'.addr)
             ELSE lru_cache' = lru_cache ]_vars

\* C9: a live address that was not the most recently used one was touched in
\* a table of at least three entries
C9_Witness ==
    /\ last.op = "touch_ip"
    /\ Len(lru_cache) >= 3
    /\ lru_cache[Len(lru_cache)].key = last.addr
    /\ AddrLt(last.addr, lru_cache[1].key)

\* C9 on the resolvers whose capacity is at least 1
C9_TouchFramePosCap ==
    [][ (capacity >= 1 /\ last'.op = "touch_ip") =>
          /\ Live(lru_cache') = Live(lru_cache)
          /\ name_to_ip' = name_to_ip
          /\ next_addr' = next_addr
          /\ IF last'.addr \in Keys(lru_cache)
             THEN /\ lru_cache'[Len(lru_cache')].key = last'.addr
                  /\ Without(lru_cache', last'.addr) = Without(lru_cache, last'.addr)
             ELSE lru_cache' = lru_cache ]_vars

\* C10: on a resolver whose capacity is at least 1 every find_or_allocate
\* call returns an address, never the address-space-exhausted error.
C10_NeverExhausted ==
    (capacity >= 1 /\ FindCalled(last)) =>
        /\ last.fa_ok
        /\ last.path # "exhausted"
        /\ last.fa_ip # NoAddr

\* C10: a full table served a new name
C10_Witness ==
    /\ capacity >= 1
    /\ Len(lru_cache) = capacity
    /\ last.path = "evict"
    /\ last.fa_ok

\* addr + k in the address family's integer
RECURSIVE AddrPlus(_, _)
AddrPlus(addr, k) == IF k = 0 THEN addr ELSE AddrPlus(increment_ip(addr), k - 1)

\* C11: from a fresh resolver the k-th distinct canonical name allocated,
\* k <= capacity, receives network_addr + (k - 1), whatever touch, resolve
\* and repeated calls for mapped names came in between.  The k-th distinct
\* name is the one allocated into a table of k - 1 entries: no entry leaves
\* a table below its capacity (C19_OccupancyMonotone).
C11_SequentialAllocation ==
    [][ (Allocates /\ Len(lru_cache) < capacity) =>
          /\ last'.fa_ok
          /\ last'.fa_ip = AddrPlus(network_addr, Len(lru_cache))
          /\ Len(lru_cache') = Len(lru_cache) + 1 ]_vars

\* C11: the fourth name of a pool of four addresses received the last
\* address, after touches that made the first address most recently used
\* before it
C11_Witness ==
    /\ capacity >= 4
    /\ Len(lru_cache) = capacity
    /\ last.path = "probe"
    /\ last.fa_ip = AddrPlus(network_addr, capacity - 1)
    /\ lru_cache[1].key # network_addr

\* the name without its last character
Front(name) == SubSeq(name, 1, Len(name) - 1)

\* the address the reverse index holds for a name is the one the call returned
KeyedAs(obs, key) ==
    /\ obs.key = key
    /\ obs.fa_ok => (key \in DOMAIN name_to_ip /\ name_to_ip[key] = obs.fa_ip)

\* C12 as claimed: with trailing_dot false a queried name that ends in a dot
\* is keyed as the name without its last dot, so that n + ".." is keyed as
\* n + ".", an entry of its own next to that of n.
C12_StripsOneDot ==
    (FindCalled(last) /\ ~trailing_dot /\ EndsWithDot(last.qname)) =>
        KeyedAs(last, Front(last.qname))

\* C12 amended: with trailing_dot false a queried name is keyed as the name
\* without any of its trailing dots, so that n + ".." shares the key and the
\* entry of n; no key of the reverse index ends in a dot.
C12_StripsAllDots ==
    /\ (FindCalled(last) /\ ~trailing_dot) =>
          /\ ~EndsWithDot(last.key)
          /\ \E k \in 0..MaxDots : last.qname = Dotted(last.key, k)
          /\ KeyedAs(last, last.key)
    /\ ~trailing_dot => \A x \in DOMAIN name_to_ip : ~EndsWithDot(x)

\* C12: a query for a name with two trailing dots was answered from the
\* entry keyed by the name without them
C12_Witness ==
    /\ ~trailing_dot
    /\ last.path = "hit"
    /\ last.qname = Dotted(last.key, 2)
    /\ <<last.key, last.fa_ip>> \in IndexPairs

\* addr lies in [network_addr, broadcast_addr]
InPool(addr) == ~AddrLt(addr, network_addr) /\ ~AddrLt(broadcast_addr, addr)

\* the successor of addr within the pool: addr + 1, or network_addr when
\* addr + 1 is outside the pool
PoolSucc(addr) ==
    IF InPool(increment_ip(addr)) THEN increment_ip(addr) ELSE network_addr

\* the call allocated an address by a probe or by an eviction
Allocated(obs) == obs.fa_ok /\ obs.path \in {"probe", "evict", "loop_evict"}

\* C13: the cursor is always within the pool; it is network_addr after
\* construction, and right after an allocation (probe or eviction) that
\* handed out address a it is a + 1, or network_addr when a + 1 is outside
\* the pool.
C13_Cursor ==
    /\ InPool(next_addr)
    /\ last.op = "new" => next_addr = network_addr
    /\ Allocated(last) => next_addr = PoolSucc(last.fa_ip)

\* C13: an eviction reused the last address of a pool of at least two
\* addresses and the cursor went back to the first
C13_Witness ==
    /\ capacity >= 2
    /\ last.path = "evict"
    /\ last.fa_ip = broadcast_addr
    /\ next_addr = network_addr

\* the step is a find_or_allocate call for a name that has a live mapping
HitsLive ==
    /\ FindCalled(last')
    /\ last'.key \in DOMAIN name_to_ip
    /\ <<last'.key, name_to_ip[last'.key]>> \in Live(lru_cache)

\* the step returned the mapped address, made its entry the most recently
\* used one and changed nothing else
RefreshesOnly ==
    /\ last'.fa_ok
    /\ last'.fa_ip = name_to_ip[last'.key]
    /\ Live(lru_cache') = Live(lru_cache)
    /\ Len(lru_cache') = Len(lru_cache)
    /\ name_to_ip' = name_to_ip
    /\ next_addr' = next_addr
    /\ lru_cache'[Len(lru_cache')].key = last'.fa_ip
    /\ Without(lru_cache', last'.fa_ip) = Without(lru_cache, last'.fa_ip)

\* C14: a find_or_allocate call for a name with a live mapping returns its
\* address and refreshes its entry to most-recently-used; the pairs of the
\* table, the reverse index, the occupancy and the cursor stay as they are,
\* at capacity too.
C14_HitFrame == [][ HitsLive => RefreshesOnly ]_vars

\* C14 on the resolvers whose capacity is at least 1
C14_HitFramePosCap == [][ (capacity >= 1 /\ HitsLive) => RefreshesOnly ]_vars

\* C14: a name that was not the most recently used one was asked for again
\* in a full table of at least two entries
C14_Witness ==
    /\ capacity >= 2
    /\ Len(lru_cache) = capacity
    /\ last.path = "hit"
    /\ lru_cache[Len(lru_cache)].key = last.fa_ip
    /\ AddrLt(last.fa_ip, lru_cache[1].key)

(***************************************************************************)
(* increment_ip on its own: an associated function without self, applied   *)
(* to addresses of both families.                                          *)
(***************************************************************************)
\* the octet values at the two ends of the range
Octets == {0, 1, ByteMax - 1, ByteMax}

\* IPv4 addresses of these octets; IPv6 addresses that end in a run of equal
\* octets of every length
IncrementInputs ==
    { <<o1, o2, o3, o4>> : o1, o2, o3, o4 \in Octets }
    \cup { Rep(V6Len - k - 1, p) \o <<q>> \o Rep(k, r) :
               p \in {0, ByteMax}, q \in Octets, r \in {0, ByteMax},
               k \in 0..(V6Len - 1) }

IncrementIp(addr) ==
    /\ Frame
    /\ UNCHANGED <<lru_cache, name_to_ip, next_addr, issued>>
    /\ last' = Obs("increment_ip", addr, <<>>, IncrementOk(addr), <<>>,
                   increment_ip(addr), FALSE, NoAddr, "none", <<>>, 0)

NextIncrement == \E addr \in IncrementInputs : IncrementIp(addr)

SpecIncrement == Init /\ [][NextIncrement]_vars

\* the carry into octet i when 1 is added to the integer the octets spell
RECURSIVE CarryInto(_, _)
CarryInto(x, i) ==
    IF i = Len(x) THEN 1
    ELSE (x[i + 1] + CarryInto(x, i + 1)) \div (ByteMax + 1)

\* (value(x) + 1) mod 2^(8 * Len(x)), by addition with carry
Successor(x) ==
    [i \in 1..Len(x) |-> (x[i] + CarryInto(x, i)) % (ByteMax + 1)]

\* the number of octets of value 255 at the right end of x
RECURSIVE TrailingMax(_)
TrailingMax(x) ==
    IF Len(x) > 0 /\ x[Len(x)] = ByteMax
    THEN 1 + TrailingMax(SubSeq(x, 1, Len(x) - 1))
    ELSE 0

\* C15: increment(addr) is the big-endian integer successor modulo the
\* address width, for addresses of 4 and of 16 octets: the trailing octets
\* of value 255 become 0, the first other octet from the right is stepped,
\* the octets to its left are kept; the all-255 address gives the all-zero
\* address, and no call fails.
C15_Increment ==
    last.op = "increment_ip" =>
        LET x == last.addr
            y == last.ip
            t == TrailingMax(x)
        IN  /\ last.ok
            /\ Len(x) \in {V4Len, V6Len}
            /\ Len(y) = Len(x)
            /\ y = Successor(x)
            /\ \A i \in 1..Len(x) :
                  y[i] = IF i > Len(x) - t THEN 0
                         ELSE IF i = Len(x) - t THEN x[i] + 1
                         ELSE x[i]
            /\ x = Rep(Len(x), ByteMax) => y = Rep(Len(x), 0)

\* C15: the all-255 IPv6 address was incremented to the all-zero address
C15_Witness ==
    /\ last.op = "increment_ip"
    /\ last.ok
    /\ last.addr = Rep(V6Len, ByteMax)
    /\ last.ip = Rep(V6Len, 0)

\* C15: a carry ran through three octets of an IPv4 address
C15_WitnessCarry ==
    /\ last.op = "increment_ip"
    /\ last.addr = <<1, ByteMax, ByteMax, ByteMax>>
    /\ last.ip = <<2, 0, 0, 0>>

(***************************************************************************)
(* The resolver of a build without overflow checks (the release profile).  *)
(* For the pool that is the whole address space of its family, b - n + 1   *)
(* overflows the family's integer at lines 34 / 39: a build with overflow  *)
(* checks panics in new() and there is no resolver; a build without them   *)
(* wraps to zero, which Capacity computes.                                 *)
(***************************************************************************)
\* the ranges of 0.0.0.0/0 and ::/0
WholePools ==
    { [n |-> Rep(V4Len, 0), b |-> Rep(V4Len, ByteMax)],
      [n |-> Rep(V6Len, 0), b |-> Rep(V6Len, ByteMax)] }

InitWrapping ==
    \/ Init
    \/ \E ip_pool \in WholePools : \E room \in RoomChoices(ip_pool) :
          New(ip_pool, FALSE, room)

SpecWrapping == InitWrapping /\ [][Next]_vars

\* the pool is the whole address space of its family
WholeSpace ==
    /\ network_addr = Rep(Len(network_addr), 0)
    /\ broadcast_addr = Rep(Len(broadcast_addr), ByteMax)

\* right after an allocation that handed out the broadcast address the
\* cursor is back on network_addr
ResetAfterBroadcast ==
    (Allocated(last) /\ last.fa_ip = broadcast_addr) => next_addr = network_addr

\* C16 as claimed: for every pool range the increment of the broadcast
\* address is outside [network_addr, broadcast_addr], and the allocator
\* resets the cursor to network_addr before it is the next candidate.
C16_BroadcastLeavesPool ==
    /\ ~InPool(increment_ip(broadcast_addr))
    /\ ResetAfterBroadcast

\* C16 amended: for every pool range but the whole address space of a
\* family the increment of the broadcast address is outside the pool; for
\* the whole address space it is the all-zero address, network_addr itself;
\* either way the cursor is network_addr once the broadcast address has been
\* handed out.
C16_BroadcastWraps ==
    /\ IF WholeSpace
       THEN increment_ip(broadcast_addr) = network_addr
       ELSE ~InPool(increment_ip(broadcast_addr))
    /\ ResetAfterBroadcast

\* C16: a probe handed out 255.255.255.255, whose increment is 0.0.0.0,
\* below the pool, and the cursor is back on the first address
C16_Witness ==
    /\ last.path = "probe"
    /\ last.fa_ip = broadcast_addr
    /\ broadcast_addr = Rep(V4Len, ByteMax)
    /\ AddrLt(increment_ip(broadcast_addr), network_addr)
    /\ next_addr = network_addr

\* the capacity is the number of addresses from network_addr to
\* broadcast_addr: broadcast_addr is the capacity-th address of the pool and
\* no earlier one
CountsPool ==
    /\ AddrPlus(network_addr, capacity - 1) = broadcast_addr
    /\ \A k \in 0..(capacity - 2) : AddrPlus(network_addr, k) # broadcast_addr

\* C17: for every pool range the capacity computed at construction is at
\* least 1 and is the number of addresses in [network_addr, broadcast_addr],
\* also for a range whose number of addresses does not fit a usize.
C17_Capacity == capacity >= 1 /\ CountsPool

\* C17 on the pools whose capacity came out at least 1
C17_CapacityPosCap == capacity >= 1 => CountsPool

\* a number of candidates no larger than the number of addresses of the
\* pool: the capacity where it counts the pool (C17_CapacityPosCap), one
\* candidate in the pools of 2^64 addresses and more
ProbeBound == IF capacity >= 1 THEN capacity ELSE 1

\* C18: every find_or_allocate call returns, its probe loop having examined
\* no more candidates than the pool has addresses, and a call for a name
\* without a mapping ends by inserting the name at a vacancy or by evicting
\* the least recently used entry for it.
C18_Terminates ==
    FindCalled(last) =>
        /\ last.probes <= ProbeBound
        /\ \/ last.path = "hit" /\ last.probes = 0
           \/ /\ last.path \in {"probe", "evict", "loop_evict"}
              /\ last.fa_ok
              /\ last.key \in DOMAIN name_to_ip
              /\ name_to_ip[last.key] = last.fa_ip
              /\ <<last.key, last.fa_ip>> \in Live(lru_cache)

\* C18: the probe loop found its vacancy in a table that already held two
\* entries
C18_Witness ==
    /\ last.path = "probe"
    /\ last.probes >= 1
    /\ Len(lru_cache) >= 3
    /\ lru_cache[Len(lru_cache)].key = last.fa_ip

\* below capacity the live addresses are the first Len(lru_cache) addresses
\* of the pool and the cursor is the next one, which is vacant
ContiguousPrefix ==
    Len(lru_cache) < capacity =>
        /\ Keys(lru_cache) =
              { AddrPlus(network_addr, i) : i \in 0..(Len(lru_cache) - 1) }
        /\ next_addr = AddrPlus(network_addr, Len(lru_cache))
        /\ next_addr \notin Keys(lru_cache)

\* the probe loop took its first candidate and never its loop-back branch
FirstCandidate ==
    FindCalled(last) =>
        /\ last.probes <= 1
        /\ last.path \in {"hit", "evict", "probe"}
        /\ last.path = "probe" => last.probes = 1

\* the occupancy does not go down, and does not leave the capacity
OccupancyMonotone ==
    /\ Len(lru_cache') >= Len(lru_cache)
    /\ Len(lru_cache) = capacity => Len(lru_cache') = capacity

\* C19: on a resolver whose capacity is at least 1, while the occupancy is
\* below the capacity the live addresses are exactly [network_addr,
\* next_addr) and the cursor is vacant; the probe succeeds on its first
\* candidate and the loop-back eviction is never executed; the occupancy
\* never decreases and stays at the capacity once it is there.
C19_FillPhase ==
    /\ [](capacity >= 1 => (ContiguousPrefix /\ FirstCandidate))
    /\ [][capacity >= 1 => OccupancyMonotone]_vars

\* the occupancy part of C19 alone (C11 refers to it)
C19_OccupancyMonotone == [][capacity >= 1 => OccupancyMonotone]_vars

\* C19: a half-filled pool of four addresses whose first address is no
\* longer the least recently used one
C19_Witness ==
    /\ capacity >= 4
    /\ Len(lru_cache) = 2
    /\ lru_cache[1].key # network_addr
    /\ next_addr = AddrPlus(network_addr, 2)

\* the step is a generate_query call that failed with no name to show: the
\* codec could not parse the datagram or could not extract the name
CodecFailed(obs) ==
    obs.op = "generate_query" /\ ~obs.ok /\ obs.qname = <<>>

\* C20: a generate_query call that fails because the codec cannot parse the
\* query or extract the name leaves the table with its recency order, the
\* reverse index and the cursor as they were, and allocates nothing.
C20_CodecFailureFrame ==
    [][ CodecFailed(last') =>
          /\ lru_cache' = lru_cache
          /\ name_to_ip' = name_to_ip
          /\ next_addr' = next_addr
          /\ ~FindCalled(last') ]_vars

\* C20: a datagram the codec could not read arrived at a resolver that holds
\* two entries or more
C20_Witness ==
    /\ CodecFailed(last)
    /\ ~FindCalled(last)
    /\ Len(lru_cache) >= 2
    /\ next_addr # network_addr

====
